---- MODULE Spec2Model ----
(***************************************************************************)
(* Virtual SME: the orchestration of virtual_sme_solution.py.              *)
(*                                                                         *)
(* State: the documents table and the query_logs table of virtual_sme.db,  *)
(* the in-memory per-domain Chroma partitions (vector_stores) of the       *)
(* process-wide VirtualSMESystem, and the outcome of the latest handler.   *)
(* The HTTP handlers are `async def` bodies without any await, so on the   *)
(* event loop each request runs to completion before the next starts: one  *)
(* action per handler.                                                     *)
(*                                                                         *)
(* External calls (sqlite commit, embedding/search, LLM completion) may    *)
(* raise; each such outcome is an input of the action.                     *)
(***************************************************************************)
EXTENDS Integers, Sequences, FiniteSets, TLC

VARIABLES documents, query_logs, vector_stores, result

vars == <<documents, query_logs, vector_stores, result>>

-----------------------------------------------------------------------------
(* Bounds of the model *)

\* documents uploaded through POST /documents in one exploration
MaxUploads == 1

\* rows of query_logs in one exploration; uploads and restarts are explored
\* up to the first row, queries up to the last
MaxLogs == 1

\* the uploads persisted under NextIngest
MaxIngests == 2

\* the runs of add_sample_data.py that have filled the database InitSeeded
\* starts on
SampleRuns == 6

(* Inputs *)

\* request.domain of POST /documents: a registered and an unregistered one
UploadDomains == {"global_trade_finance", "crypto_finance"}

\* title and content of an uploaded document; the content stands for its
\* embedding (a point on a line)
Uploads == {[title |-> "Letters of Credit", content |-> 1]}

\* the bodies of POST /query: user_id, query (the query stands for its
\* embedding) and preferred_domains (given = FALSE: the field is absent)
Requests ==
    {[user_id |-> "alice", query |-> 0, given |-> FALSE, list |-> <<>>],
     [user_id |-> "bob", query |-> 1, given |-> TRUE, list |-> <<>>],
     [user_id |-> "alice", query |-> 1, given |-> TRUE,
      list |-> <<"global_trade_finance">>],
     [user_id |-> "bob", query |-> 0, given |-> TRUE,
      list |-> <<"compliance", "global_trade_finance">>],
     [user_id |-> "alice", query |-> 0, given |-> TRUE,
      list |-> <<"global_trade_finance", "global_trade_finance">>],
     [user_id |-> "bob", query |-> 1, given |-> TRUE,
      list |-> <<"global_trade_finance", "crypto_finance">>]}

\* the number of rows _load_existing_knowledge has added when it raises (all
\* of them when it does not): none, all but the last, all
LoadFailurePoints ==
    {0, Len(documents)} \cup {n \in {Len(documents) - 1} : n >= 0}

\* the domains whose search call or completion call may raise
FailDomains == {"global_trade_finance"}

\* the same under NextFailures
FailDomainsWide == {"global_trade_finance", "compliance"}

-----------------------------------------------------------------------------
(* Domain registry *)

BankingDomain ==
    {"distribution_finance", "channel_finance", "global_trade_finance",
     "risk_management", "compliance", "customer_service"}

\* list(BankingDomain): the members in definition order
BankingDomainList ==
    <<"distribution_finance", "channel_finance", "global_trade_finance",
      "risk_management", "compliance", "customer_service">>

\* the domains that have a prompt template
domain_experts == BankingDomain

SearchK == 5

ConfidenceCap == 9

HTTP_200 == 200

HTTP_400 == 400

HTTP_500 == 500

-----------------------------------------------------------------------------
(* Helpers *)

Min(a, b) == IF a < b THEN a ELSE b

Abs(a) == IF a < 0 THEN 0 - a ELSE a

Range(s) == {s[i] : i \in 1..Len(s)}

\* dict assignment d[k] = v
DictSet(d, k, v) == [x \in (DOMAIN d) \cup {k} |-> IF x = k THEN v ELSE d[x]]

\* the rows of the documents table of one domain
RowsOfDomain(rows, domain) == {i \in 1..Len(rows) : rows[i].domain = domain}

\* ids present in the documents table (primary key)
DocumentIds == {documents[i].id : i \in 1..Len(documents)}

\* the rows written through POST /documents (ids "doc_<timestamp>")
UploadedRows == {i \in 1..Len(documents) : documents[i].id[1] = "doc"}

\* the langchain Document built from a row: page_content and metadata; id
\* names the row the vector was embedded from (the program never reads it)
VectorEntry(doc) ==
    [id |-> doc.id, title |-> doc.title, page_content |-> doc.content,
     domain |-> doc.domain]

-----------------------------------------------------------------------------
(* Startup *)

\* the rows add_sample_data.py writes: one document per domain, in the
\* order of sample_docs, ids "sample_<domain>_<timestamp>"
SampleTitle ==
    [distribution_finance |-> "Distribution Finance Overview",
     channel_finance      |-> "Channel Finance Best Practices",
     global_trade_finance |-> "Global Trade Finance Fundamentals",
     risk_management      |-> "Risk Management Framework",
     compliance           |-> "Banking Compliance Requirements",
     customer_service     |-> "Customer Service Excellence"]

SampleRows ==
    [i \in 1..Len(BankingDomainList) |->
        [id |-> <<"sample", i>>, title |-> SampleTitle[BankingDomainList[i]],
         content |-> 0, domain |-> BankingDomainList[i]]]

\* the rows after SampleRuns runs of add_sample_data.py: each run adds one
\* document per domain, with the same titles and contents and new ids
SeededRows ==
    [i \in 1..(SampleRuns * Len(BankingDomainList)) |->
        [id |-> <<"sample", i>>,
         title |-> SampleTitle[BankingDomainList[
                      ((i - 1) % Len(BankingDomainList)) + 1]],
         content |-> 0,
         domain |-> BankingDomainList[
                      ((i - 1) % Len(BankingDomainList)) + 1]]]

\* LoadRows without the test `domain not in self.vector_stores`: a new
\* partition replaces the domain's partition at every row
RECURSIVE LoadRows_NewPartitionEachRow(_, _, _)
LoadRows_NewPartitionEachRow(rows, n, stores) ==
    IF n = 0 THEN stores
    ELSE DictSet(LoadRows_NewPartitionEachRow(rows, n - 1, stores),
                 rows[n].domain, <<VectorEntry(rows[n])>>)

\* one iteration of the loop of _load_existing_knowledge: the partition of
\* the row's domain is created if there is none, and the row is added to it
LoadRow(prev, doc) ==
    DictSet(prev, doc.domain,
            Append(IF doc.domain \in DOMAIN prev THEN prev[doc.domain]
                   ELSE <<>>,
                   VectorEntry(doc)))

\* _load_existing_knowledge: the loop over the rows 1..n, in order.  The
\* whole loop is inside one try: the first exception ends it.
RECURSIVE LoadRows(_, _, _)
LoadRows(rows, n, stores) ==
    IF n = 0 THEN stores
    ELSE LoadRow(LoadRows(rows, n - 1, stores), rows[n])

\* _load_existing_knowledge starting from a partition for every registered
\* domain
LoadExistingKnowledge_PartitionPerDomain(rows, loaded, created) ==
    LoadRows(rows, loaded, [d \in BankingDomain |-> <<>>])

\* the state of vector_stores after _load_existing_knowledge when the first
\* exception is raised while row (loaded + 1) is handled; created tells
\* whether that row's partition had been created before the exception
LoadExistingKnowledge(rows, loaded, created) ==
    LET stores == LoadRows(rows, loaded, <<>>)
    IN  IF loaded < Len(rows) /\ created
           /\ rows[loaded + 1].domain \notin DOMAIN stores
        THEN DictSet(stores, rows[loaded + 1].domain, <<>>)
        ELSE stores

-----------------------------------------------------------------------------
(* Ingestion *)

\* add_knowledge_document returning True as soon as the commit has succeeded
add_knowledge_document_ReportsAfterCommit(document, commit_ok, index) ==
    LET persisted == commit_ok /\ document.id \notin DocumentIds
    IN  IF ~persisted
        THEN [documents |-> documents, vector_stores |-> vector_stores,
              success |-> FALSE]
        ELSE IF index = "ok"
        THEN [documents |-> Append(documents, document),
              vector_stores |->
                  DictSet(vector_stores, document.domain,
                      Append(IF document.domain \in DOMAIN vector_stores
                             THEN vector_stores[document.domain] ELSE <<>>,
                             VectorEntry(document))),
              success |-> TRUE]
        ELSE [documents |-> Append(documents, document),
              vector_stores |-> vector_stores, success |-> TRUE]

\* add_knowledge_document indexing the document before the commit
add_knowledge_document_IndexesFirst(document, commit_ok, index) ==
    LET persisted == commit_ok /\ document.id \notin DocumentIds
        rows      == IF persisted THEN Append(documents, document)
                     ELSE documents
        domain    == document.domain
        absent    == domain \notin DOMAIN vector_stores
        created   == IF absent /\ index # "create_fails"
                     THEN DictSet(vector_stores, domain, <<>>)
                     ELSE vector_stores
        indexed   == DictSet(created, domain,
                             Append(created[domain], VectorEntry(document)))
    IN  IF index = "create_fails"
        THEN [documents |-> documents, vector_stores |-> vector_stores,
              success |-> FALSE]
        ELSE IF index = "add_fails"
        THEN [documents |-> documents, vector_stores |-> created,
              success |-> FALSE]
        ELSE [documents |-> rows, vector_stores |-> indexed,
              success |-> persisted]

\* add_knowledge_document creating the partition without the test that the
\* domain has none: the document is added to a new, empty partition
add_knowledge_document_RecreatesPartition(document, commit_ok, index) ==
    LET persisted == commit_ok /\ document.id \notin DocumentIds
        rows      == IF persisted THEN Append(documents, document)
                     ELSE documents
        domain    == document.domain
        created   == IF index # "create_fails"
                     THEN DictSet(vector_stores, domain, <<>>)
                     ELSE vector_stores
        indexed   == DictSet(created, domain,
                             Append(created[domain], VectorEntry(document)))
    IN  IF ~persisted
        THEN [documents |-> documents, vector_stores |-> vector_stores,
              success |-> FALSE]
        ELSE IF index = "ok"
        THEN [documents |-> rows, vector_stores |-> indexed,
              success |-> TRUE]
        ELSE IF index = "add_fails"
        THEN [documents |-> rows, vector_stores |-> created,
              success |-> FALSE]
        ELSE [documents |-> rows, vector_stores |-> vector_stores,
              success |-> FALSE]

\* add_knowledge_document discarding the domain's partition when indexing
\* raises
add_knowledge_document_DropsPartitionOnFailure(document, commit_ok, index) ==
    LET persisted == commit_ok /\ document.id \notin DocumentIds
        rows      == IF persisted THEN Append(documents, document)
                     ELSE documents
        domain    == document.domain
        absent    == domain \notin DOMAIN vector_stores
        created   == IF absent /\ index # "create_fails"
                     THEN DictSet(vector_stores, domain, <<>>)
                     ELSE vector_stores
        indexed   == DictSet(created, domain,
                             Append(created[domain], VectorEntry(document)))
    IN  IF ~persisted
        THEN [documents |-> documents, vector_stores |-> vector_stores,
              success |-> FALSE]
        ELSE IF index = "ok"
        THEN [documents |-> rows, vector_stores |-> indexed,
              success |-> TRUE]
        ELSE [documents |-> rows,
              vector_stores |-> [d \in DOMAIN vector_stores \ {domain} |->
                                    vector_stores[d]],
              success |-> FALSE]

\* add_knowledge_document.  commit_ok: the commit raises no error other than
\* the primary-key violation; index: "ok", "create_fails" (Chroma(...)
\* raises) or "add_fails" (add_documents raises).
\* Returns the new tables and the boolean the method returns.
add_knowledge_document(document, commit_ok, index) ==
    LET persisted == commit_ok /\ document.id \notin DocumentIds
        rows      == IF persisted THEN Append(documents, document)
                     ELSE documents
        domain    == document.domain
        absent    == domain \notin DOMAIN vector_stores
        created   == IF absent /\ index # "create_fails"
                     THEN DictSet(vector_stores, domain, <<>>)
                     ELSE vector_stores
        indexed   == DictSet(created, domain,
                             Append(created[domain], VectorEntry(document)))
    IN  IF ~persisted
        THEN [documents |-> documents, vector_stores |-> vector_stores,
              success |-> FALSE]
        ELSE IF index = "ok"
        THEN [documents |-> rows, vector_stores |-> indexed,
              success |-> TRUE]
        ELSE IF index = "add_fails"
        THEN [documents |-> rows, vector_stores |-> created,
              success |-> FALSE]
        ELSE [documents |-> rows, vector_stores |-> vector_stores,
              success |-> FALSE]

IndexOutcomes == {"ok", "create_fails", "add_fails"}

\* document_added answering every return of add_knowledge_document as a
\* success
document_added_IgnoresSuccess(domain, ts, r) ==
    /\ documents' = r.documents
    /\ vector_stores' = r.vector_stores
    /\ result' = [op |-> "add_document", status |-> HTTP_200,
                  detail |-> "Document added successfully",
                  called |-> TRUE, success |-> r.success,
                  domain |-> domain, id |-> <<"doc", ts>>]
    /\ UNCHANGED query_logs

\* POST /documents, once add_knowledge_document has returned r.  The
\* HTTPException raised for a False return is raised inside the try and
\* caught by except Exception, which raises the one the caller gets.
document_added(domain, ts, r) ==
    /\ documents' = r.documents
    /\ vector_stores' = r.vector_stores
    /\ result' = [op |-> "add_document",
                  status |-> IF r.success THEN HTTP_200 ELSE HTTP_500,
                  detail |-> IF r.success THEN "Document added successfully"
                             ELSE "Error adding document",
                  called |-> TRUE, success |-> r.success,
                  domain |-> domain, id |-> <<"doc", ts>>]
    /\ UNCHANGED query_logs

\* add_document without the conversion BankingDomain(request.domain)
add_document_Unvalidated(upload, domain, ts, commit_ok, index) ==
    /\ query_logs = <<>>
    /\ document_added(domain, ts,
           add_knowledge_document(
               [id |-> <<"doc", ts>>, title |-> upload.title,
                content |-> upload.content, domain |-> domain],
               commit_ok, index))

\* POST /documents.  ts: the reading of utcnow().timestamp() that makes the
\* id f"doc_{ts}"; the wall clock may repeat an earlier reading.
add_document(upload, domain, ts, commit_ok, index) ==
    /\ query_logs = <<>>
    /\ IF domain \notin BankingDomain
       THEN \* BankingDomain(request.domain) raises ValueError
            /\ result' = [op |-> "add_document", status |-> HTTP_400,
                          detail |-> <<"Invalid domain", domain>>,
                          called |-> FALSE, success |-> FALSE,
                          domain |-> domain, id |-> <<"doc", ts>>]
            /\ UNCHANGED <<documents, vector_stores, query_logs>>
       ELSE document_added(domain, ts,
                add_knowledge_document(
                    [id |-> <<"doc", ts>>, title |-> upload.title,
                     content |-> upload.content, domain |-> domain],
                    commit_ok, index))

\* a new process on the same virtual_sme.db: VirtualSMESystem.__init__
Restart(loaded, created) ==
    /\ query_logs = <<>>
    /\ result.op # "restart"
    /\ vector_stores' = LoadExistingKnowledge(documents, loaded, created)
    /\ result' = [op |-> "restart", loaded |-> loaded,
                  complete |-> (loaded = Len(documents))]
    /\ UNCHANGED <<documents, query_logs>>

-----------------------------------------------------------------------------
(* Retrieval *)

\* Chroma.similarity_search(query, k): the k entries nearest to the query,
\* nearest first, equal distances in insertion order
Distance(entry, query) == Abs(entry.page_content - query)

Rank(store, query, i) ==
    Cardinality({j \in 1..Len(store) :
        \/ Distance(store[j], query) < Distance(store[i], query)
        \/ /\ Distance(store[j], query) = Distance(store[i], query)
           /\ j < i})

\* similarity_search returning every entry of the partition, nearest first
similarity_search_Untruncated(store, query, k) ==
    [r \in 1..Len(store) |->
        store[CHOOSE i \in 1..Len(store) : Rank(store, query, i) = r - 1]]

similarity_search(store, query, k) ==
    [r \in 1..Min(k, Len(store)) |->
        store[CHOOSE i \in 1..Len(store) : Rank(store, query, i) = r - 1]]

\* RetrieveStep with the try around the whole loop: a search that raises
\* ends the retrieval
RetrieveStep_RaiseEndsLoop(found, domain, query, sf) ==
    IF \E i \in 1..Len(found.searches) : found.searches[i].outcome = "raised"
    THEN found
    ELSE IF domain \notin DOMAIN vector_stores THEN found
    ELSE IF domain \in sf
    THEN [found EXCEPT !.searches =
             Append(@, [domain |-> domain, outcome |-> "raised"])]
    ELSE LET docs == similarity_search(vector_stores[domain], query, SearchK)
         IN  IF docs = <<>>
             THEN [found EXCEPT !.searches =
                      Append(@, [domain |-> domain, outcome |-> "empty"])]
             ELSE [all_relevant_docs |-> found.all_relevant_docs \o docs,
                   domains_consulted |-> Append(found.domains_consulted, domain),
                   searches |-> Append(found.searches,
                                   [domain |-> domain, outcome |-> "hits"])]

\* RetrieveStep without the test of docs: a search with no hit still puts
\* its domain in domains_consulted
RetrieveStep_EmptyConsulted(found, domain, query, sf) ==
    IF domain \notin DOMAIN vector_stores THEN found
    ELSE IF domain \in sf
    THEN [found EXCEPT !.searches =
             Append(@, [domain |-> domain, outcome |-> "raised"])]
    ELSE LET docs == similarity_search(vector_stores[domain], query, SearchK)
         IN  [all_relevant_docs |-> found.all_relevant_docs \o docs,
              domains_consulted |-> Append(found.domains_consulted, domain),
              searches |-> Append(found.searches,
                              [domain |-> domain,
                               outcome |-> IF docs = <<>> THEN "empty"
                                           ELSE "hits"])]

\* one iteration of the retrieval loop of query_knowledge_base; found: the
\* lists built so far; sf: the domains whose search call raises
RetrieveStep(found, domain, query, sf) ==
    IF domain \notin DOMAIN vector_stores THEN found
    ELSE IF domain \in sf
    THEN [found EXCEPT !.searches =
             Append(@, [domain |-> domain, outcome |-> "raised"])]
    ELSE LET docs == similarity_search(vector_stores[domain], query, SearchK)
         IN  IF docs = <<>>
             THEN [found EXCEPT !.searches =
                      Append(@, [domain |-> domain, outcome |-> "empty"])]
             ELSE [all_relevant_docs |-> found.all_relevant_docs \o docs,
                   domains_consulted |-> Append(found.domains_consulted, domain),
                   searches |-> Append(found.searches,
                                   [domain |-> domain, outcome |-> "hits"])]

\* the retrieval loop over domains_to_search[1..n]
RECURSIVE Retrieve(_, _, _, _)
Retrieve(domains_to_search, n, query, sf) ==
    IF n = 0
    THEN [all_relevant_docs |-> <<>>, domains_consulted |-> <<>>,
          searches |-> <<>>]
    ELSE RetrieveStep(Retrieve(domains_to_search, n - 1, query, sf),
                      domains_to_search[n], query, sf)

-----------------------------------------------------------------------------
(* Generation *)

FallbackAnswer ==
    [kind |-> "text",
     text |-> "I don't have sufficient information to answer your question. Please try rephrasing or contact a human expert."]

UnableAnswer ==
    [kind |-> "text",
     text |-> "I apologize, but I'm unable to generate a response at this time."]

\* "\n\n".join(f"Source: {title}\n{page_content}" for doc in docs): the
\* sequence of the blocks
ContextText(docs) ==
    [i \in 1..Len(docs) |-> <<"Source", docs[i].title, docs[i].page_content>>]

\* the text a successful chain.run returns: the model's completion of the
\* prompt made from a template for a question
Completion(template, question) ==
    [kind |-> "completion", template |-> template, question |-> question]

\* GenerateStep with the try around the whole loop: a completion call that
\* raises ends the generation
GenerateStep_RaiseEndsLoop(gen, domain, context_text, query, gf) ==
    IF \E i \in 1..Len(gen.calls) : gen.calls[i].raised
    THEN gen
    ELSE IF domain \notin domain_experts THEN gen
    ELSE IF domain \in gf
    THEN [gen EXCEPT !.calls =
             Append(@, [template |-> domain, variables |-> context_text,
                        question |-> query, raised |-> TRUE])]
    ELSE [responses |-> Append(gen.responses,
                           [domain |-> domain,
                            response |-> Completion(domain, query)]),
          calls |-> Append(gen.calls,
                           [template |-> domain, variables |-> context_text,
                            question |-> query, raised |-> FALSE])]

\* GenerateStep making no second completion call for a domain
GenerateStep_OncePerDomain(gen, domain, context_text, query, gf) ==
    IF domain \notin domain_experts THEN gen
    ELSE IF \E i \in 1..Len(gen.calls) : gen.calls[i].template = domain
    THEN gen
    ELSE IF domain \in gf
    THEN [gen EXCEPT !.calls =
             Append(@, [template |-> domain, variables |-> context_text,
                        question |-> query, raised |-> TRUE])]
    ELSE [responses |-> Append(gen.responses,
                           [domain |-> domain,
                            response |-> Completion(domain, query)]),
          calls |-> Append(gen.calls,
                           [template |-> domain, variables |-> context_text,
                            question |-> query, raised |-> FALSE])]

\* one iteration of the generation loop of query_knowledge_base; gen: the
\* responses so far and the completion calls made; gf: the domains whose
\* completion call raises
GenerateStep(gen, domain, context_text, query, gf) ==
    IF domain \notin domain_experts THEN gen
    ELSE IF domain \in gf
    THEN [gen EXCEPT !.calls =
             Append(@, [template |-> domain, variables |-> context_text,
                        question |-> query, raised |-> TRUE])]
    ELSE [responses |-> Append(gen.responses,
                           [domain |-> domain,
                            response |-> Completion(domain, query)]),
          calls |-> Append(gen.calls,
                           [template |-> domain, variables |-> context_text,
                            question |-> query, raised |-> FALSE])]

\* the generation loop over domains_consulted[1..n]
RECURSIVE Generate(_, _, _, _, _)
Generate(domains_consulted, n, context_text, query, gf) ==
    IF n = 0 THEN [responses |-> <<>>, calls |-> <<>>]
    ELSE GenerateStep(Generate(domains_consulted, n - 1, context_text,
                               query, gf),
                      domains_consulted[n], context_text, query, gf)

\* domain.value.replace('_', ' ').title()
DomainLabel ==
    [distribution_finance |-> "Distribution Finance",
     channel_finance      |-> "Channel Finance",
     global_trade_finance |-> "Global Trade Finance",
     risk_management      |-> "Risk Management",
     compliance           |-> "Compliance",
     customer_service     |-> "Customer Service"]

\* _combine_domain_responses without the single-response shortcut
combine_domain_responses_AlwaysSynthesizes(responses, original_query, synth_fail) ==
    LET call == [template |-> "synthesis",
                 variables |-> [i \in 1..Len(responses) |->
                     <<"Domain", DomainLabel[responses[i].domain],
                       "Response", responses[i].response>>],
                 question |-> original_query, raised |-> synth_fail]
    IN  IF ~synth_fail
        THEN [answer |-> Completion("synthesis", original_query),
              calls |-> <<call>>]
        ELSE [answer |-> [kind |-> "join",
                          parts |-> [i \in 1..Len(responses) |->
                                        responses[i].response]],
              calls |-> <<call>>]

\* _combine_domain_responses falling back to the first response alone
combine_domain_responses_FallbackFirstOnly(responses, original_query, synth_fail) ==
    LET call == [template |-> "synthesis",
                 variables |-> [i \in 1..Len(responses) |->
                     <<"Domain", DomainLabel[responses[i].domain],
                       "Response", responses[i].response>>],
                 question |-> original_query, raised |-> synth_fail]
    IN  IF Len(responses) = 1
        THEN [answer |-> responses[1].response, calls |-> <<>>]
        ELSE IF ~synth_fail
        THEN [answer |-> Completion("synthesis", original_query),
              calls |-> <<call>>]
        ELSE [answer |-> responses[1].response, calls |-> <<call>>]

\* _combine_domain_responses, for a non-empty responses list; returns the
\* answer and the completion calls it made
combine_domain_responses(responses, original_query, synth_fail) ==
    LET formatted_responses ==
            [i \in 1..Len(responses) |->
                <<"Domain", DomainLabel[responses[i].domain],
                  "Response", responses[i].response>>]
        call == [template |-> "synthesis", variables |-> formatted_responses,
                 question |-> original_query, raised |-> synth_fail]
    IN  IF Len(responses) = 1
        THEN [answer |-> responses[1].response, calls |-> <<>>]
        ELSE IF ~synth_fail
        THEN [answer |-> Completion("synthesis", original_query),
              calls |-> <<call>>]
        ELSE [answer |-> [kind |-> "join",
                          parts |-> [i \in 1..Len(responses) |->
                                        responses[i].response]],
              calls |-> <<call>>]

\* _log_query storing the first of the domains in place of their list
log_query_FirstDomainOnly(user_id, query, response, domains_consulted, confidence, log_fail) ==
    IF log_fail THEN query_logs
    ELSE Append(query_logs,
                [user_id |-> user_id, query |-> query, response |-> response,
                 domains_consulted |->
                     <<"json", SubSeq(domains_consulted, 1, 1)>>,
                 confidence |-> <<"str", confidence>>])

\* _log_query: the row added to query_logs; log_fail: the commit raises
log_query(user_id, query, response, domains_consulted, confidence, log_fail) ==
    IF log_fail THEN query_logs
    ELSE Append(query_logs,
                [user_id |-> user_id, query |-> query, response |-> response,
                 domains_consulted |-> <<"json", domains_consulted>>,
                 confidence |-> <<"str", confidence>>])

\* the confidence without the min
Confidence_Unclamped(all_relevant_docs, domains_consulted) ==
    Len(all_relevant_docs) + Len(domains_consulted)

\* the confidence without the domain term
Confidence_HitsOnly(all_relevant_docs, domains_consulted) ==
    Min(ConfidenceCap, Len(all_relevant_docs))

\* min(0.9, len(all_relevant_docs) * 0.1 + len(domains_consulted) * 0.1), in
\* tenths: for every pair of lengths the float sum is below 0.9 exactly when
\* the sum of the lengths is below 9
Confidence(all_relevant_docs, domains_consulted) ==
    Min(ConfidenceCap, Len(all_relevant_docs) + Len(domains_consulted))

\* Respond listing every title once
Respond_DistinctSources(found, gen, combined, confidence, query, user_id, log_fail) ==
    LET titles == [i \in 1..Len(found.all_relevant_docs) |->
                      found.all_relevant_docs[i].title]
        RECURSIVE Distinct(_)
        Distinct(n) ==
            IF n = 0 THEN <<>>
            ELSE IF \E j \in 1..(n - 1) : titles[j] = titles[n]
            THEN Distinct(n - 1)
            ELSE Append(Distinct(n - 1), titles[n])
    IN  [response |-> [answer |-> combined.answer,
                       sources |-> Distinct(Len(titles)),
                       confidence |-> confidence,
                       domains_consulted |-> found.domains_consulted],
         query_logs |-> log_query(user_id, query, combined.answer,
                                  found.domains_consulted, confidence,
                                  log_fail),
         searches |-> found.searches, hits |-> found.all_relevant_docs,
         responses |-> gen.responses,
         calls |-> gen.calls \o combined.calls,
         log |-> IF log_fail THEN "raised" ELSE "appended"]

\* query_knowledge_base after the generation loop: combination, confidence,
\* audit log, response
Respond(found, gen, combined, confidence, query, user_id, log_fail) ==
    [response |-> [answer |-> combined.answer,
                   sources |-> [i \in 1..Len(found.all_relevant_docs) |->
                                   found.all_relevant_docs[i].title],
                   confidence |-> confidence,
                   domains_consulted |-> found.domains_consulted],
     query_logs |-> log_query(user_id, query, combined.answer,
                              found.domains_consulted, confidence, log_fail),
     searches |-> found.searches, hits |-> found.all_relevant_docs,
     responses |-> gen.responses,
     calls |-> gen.calls \o combined.calls,
     log |-> IF log_fail THEN "raised" ELSE "appended"]

\* Combine giving confidence 0.0 when no completion call succeeded
Combine_NoAnswerNoConfidence(found, gen, query, user_id, synth_fail, log_fail) ==
    Respond(found, gen,
            IF gen.responses # <<>>
            THEN combine_domain_responses(gen.responses, query, synth_fail)
            ELSE [answer |-> UnableAnswer, calls |-> <<>>],
            IF gen.responses # <<>>
            THEN Confidence(found.all_relevant_docs, found.domains_consulted)
            ELSE 0,
            query, user_id, log_fail)

\* query_knowledge_base from the combination of the responses on: the
\* answer, the confidence, then Respond
Combine(found, gen, query, user_id, synth_fail, log_fail) ==
    Respond(found, gen,
            IF gen.responses # <<>>
            THEN combine_domain_responses(gen.responses, query, synth_fail)
            ELSE [answer |-> UnableAnswer, calls |-> <<>>],
            Confidence(found.all_relevant_docs, found.domains_consulted),
            query, user_id, log_fail)

\* Answer without the early exit on an empty all_relevant_docs
Answer_NoEarlyExit(found, query, user_id, gf, synth_fail, log_fail) ==
    Combine(found,
            Generate(found.domains_consulted, Len(found.domains_consulted),
                     ContextText(found.all_relevant_docs), query, gf),
            query, user_id, synth_fail, log_fail)

\* Answer starting the generation before the search of the last consulted
\* domain has returned: the context lacks that domain's hits
Answer_GeneratesBeforeLastSearch(found, query, user_id, gf, synth_fail, log_fail) ==
    IF found.all_relevant_docs = <<>>
    THEN [response |-> [answer |-> FallbackAnswer, sources |-> <<>>,
                        confidence |-> 0, domains_consulted |-> <<>>],
          query_logs |-> query_logs,
          searches |-> found.searches, hits |-> <<>>,
          responses |-> <<>>, calls |-> <<>>,
          log |-> "not called"]
    ELSE Combine(found,
                 Generate(found.domains_consulted,
                          Len(found.domains_consulted),
                          ContextText(SelectSeq(found.all_relevant_docs,
                              LAMBDA doc : doc.domain #
                                  found.domains_consulted[
                                      Len(found.domains_consulted)])),
                          query, gf),
                 query, user_id, synth_fail, log_fail)

\* query_knowledge_base after the retrieval loop
Answer(found, query, user_id, gf, synth_fail, log_fail) ==
    IF found.all_relevant_docs = <<>>
    THEN [response |-> [answer |-> FallbackAnswer, sources |-> <<>>,
                        confidence |-> 0, domains_consulted |-> <<>>],
          query_logs |-> query_logs,
          searches |-> found.searches, hits |-> <<>>,
          responses |-> <<>>, calls |-> <<>>,
          log |-> "not called"]
    ELSE Combine(found,
                 Generate(found.domains_consulted,
                          Len(found.domains_consulted),
                          ContextText(found.all_relevant_docs), query, gf),
                 query, user_id, synth_fail, log_fail)

\* the selection without preferred_domains: every registered domain
DomainsToSearch_IgnoresPreference(preferred_domains) ==
    BankingDomainList

\* preferred_domains or list(BankingDomain); <<>> stands for None too
DomainsToSearch(preferred_domains) ==
    IF preferred_domains # <<>> THEN preferred_domains ELSE BankingDomainList

\* VirtualSMESystem.query_knowledge_base; preferred_domains: a list of
\* BankingDomain, or <<>> for None.  Returns the QueryResponse, the new
\* query_logs and the external calls made.
query_knowledge_base(query, user_id, preferred_domains, sf, gf, synth_fail, log_fail) ==
    Answer(Retrieve(DomainsToSearch(preferred_domains),
                    Len(DomainsToSearch(preferred_domains)), query, sf),
           query, user_id, gf, synth_fail, log_fail)

\* query_returned when _log_query lets the error of the append through: the
\* handler's except answers HTTP 500
query_returned_LogErrorEscapes(request, r) ==
    /\ query_logs' = r.query_logs
    /\ result' = [op |-> "query",
                  status |-> IF r.log = "raised" THEN HTTP_500 ELSE HTTP_200,
                  called |-> TRUE, request |-> request,
                  response |-> r.response,
                  domains_to_search |-> DomainsToSearch(request.list),
                  searches |-> r.searches, hits |-> r.hits,
                  responses |-> r.responses, calls |-> r.calls,
                  log |-> r.log]
    /\ UNCHANGED <<documents, vector_stores>>

\* query_returned when the retrieval loop lets the error of a search
\* through: the handler's except answers HTTP 500
query_returned_SearchErrorEscapes(request, r) ==
    /\ query_logs' = r.query_logs
    /\ result' = [op |-> "query",
                  status |-> IF \E i \in 1..Len(r.searches) :
                                    r.searches[i].outcome = "raised"
                             THEN HTTP_500 ELSE HTTP_200,
                  called |-> TRUE, request |-> request,
                  response |-> r.response,
                  domains_to_search |-> DomainsToSearch(request.list),
                  searches |-> r.searches, hits |-> r.hits,
                  responses |-> r.responses, calls |-> r.calls,
                  log |-> r.log]
    /\ UNCHANGED <<documents, vector_stores>>

\* query_returned after a retrieval that creates the partition of every
\* selected domain that has none
query_returned_CreatesPartitions(request, r) ==
    /\ query_logs' = r.query_logs
    /\ result' = [op |-> "query", status |-> HTTP_200,
                  called |-> TRUE, request |-> request,
                  response |-> r.response,
                  domains_to_search |-> DomainsToSearch(request.list),
                  searches |-> r.searches, hits |-> r.hits,
                  responses |-> r.responses, calls |-> r.calls,
                  log |-> r.log]
    /\ vector_stores' =
          [d \in DOMAIN vector_stores \cup Range(DomainsToSearch(request.list))
              |-> IF d \in DOMAIN vector_stores THEN vector_stores[d]
                  ELSE <<>>]
    /\ UNCHANGED documents

\* POST /query, once query_knowledge_base has returned r
query_returned(request, r) ==
    /\ query_logs' = r.query_logs
    /\ result' = [op |-> "query", status |-> HTTP_200,
                  called |-> TRUE, request |-> request,
                  response |-> r.response,
                  domains_to_search |-> DomainsToSearch(request.list),
                  searches |-> r.searches, hits |-> r.hits,
                  responses |-> r.responses, calls |-> r.calls,
                  log |-> r.log]
    /\ UNCHANGED <<documents, vector_stores>>

\* POST /query
post_query(request, sf, gf, synth_fail, log_fail) ==
    /\ Len(query_logs) < MaxLogs
    /\ IF request.list # <<>> /\ ~(Range(request.list) \subseteq BankingDomain)
       THEN \* BankingDomain(domain) raises ValueError inside the try
            /\ result' = [op |-> "query", status |-> HTTP_500,
                          called |-> FALSE, request |-> request]
            /\ UNCHANGED <<documents, vector_stores, query_logs>>
       ELSE query_returned(request,
                query_knowledge_base(request.query, request.user_id,
                                     request.list, sf, gf, synth_fail,
                                     log_fail))

-----------------------------------------------------------------------------

\* The external calls a request reaches, among those that may raise: a
\* failure is an input only where the call is made.
SearchPoints(request) ==
    IF Range(request.list) \subseteq BankingDomain
    THEN Range(DomainsToSearch(request.list)) \cap DOMAIN vector_stores
         \cap FailDomains
    ELSE {}

Retrieved(request, sf) ==
    Retrieve(DomainsToSearch(request.list),
             Len(DomainsToSearch(request.list)), request.query, sf)

GenerationPoints(request, sf) ==
    IF Range(request.list) \subseteq BankingDomain
    THEN Range(Retrieved(request, sf).domains_consulted) \cap FailDomains
    ELSE {}

SynthesisOutcomes(request, sf, gf) ==
    IF /\ Range(request.list) \subseteq BankingDomain
       /\ Len(SelectSeq(Retrieved(request, sf).domains_consulted,
                        LAMBDA d : d \notin gf)) > 1
    THEN BOOLEAN ELSE {FALSE}

LogOutcomes(request, sf) ==
    IF /\ Range(request.list) \subseteq BankingDomain
       /\ Retrieved(request, sf).all_relevant_docs # <<>>
    THEN BOOLEAN ELSE {FALSE}

\* the process starts on a new virtual_sme.db or on the one that
\* add_sample_data.py has filled
Init ==
    /\ documents \in {<<>>, SampleRows}
    /\ query_logs = <<>>
    /\ vector_stores = LoadExistingKnowledge(documents, Len(documents), FALSE)
    /\ result = [op |-> "restart", loaded |-> Len(documents),
                 complete |-> TRUE]

Next ==
    \/ \E upload \in Uploads, domain \in UploadDomains,
          ts \in 1..Min(Cardinality(UploadedRows) + 1, MaxUploads),
          commit_ok \in BOOLEAN,
          index \in IndexOutcomes :
            add_document(upload, domain, ts, commit_ok, index)
    \/ \E loaded \in LoadFailurePoints, created \in BOOLEAN :
            Restart(loaded, created)
    \/ \E request \in Requests :
         \E sf \in SUBSET SearchPoints(request) :
           \E gf \in SUBSET GenerationPoints(request, sf) :
             \E synth_fail \in SynthesisOutcomes(request, sf, gf),
                log_fail \in LogOutcomes(request, sf) :
                  post_query(request, sf, gf, synth_fail, log_fail)

Spec == Init /\ [][Next]_vars

\* Ingestion alone, with more uploads than Next takes: the requests to POST
\* /documents of one or several runs of the process
NextIngest ==
    \/ \E upload \in Uploads, domain \in UploadDomains,
          ts \in 1..Min(Cardinality(UploadedRows) + 1, MaxIngests),
          commit_ok \in BOOLEAN, index \in IndexOutcomes :
            add_document(upload, domain, ts, commit_ok, index)
    \/ \E loaded \in LoadFailurePoints, created \in BOOLEAN :
            Restart(loaded, created)

SpecIngest == Init /\ [][NextIngest]_vars

\* Queries alone, with failures of the searches and of the completion calls
\* of two domains, on the knowledge base a start or a restart has loaded
NextFailures ==
    \/ \E loaded \in LoadFailurePoints, created \in BOOLEAN :
            Restart(loaded, created)
    \/ \E request \in Requests :
         \E sf \in SUBSET (IF Range(request.list) \subseteq BankingDomain
                           THEN Range(DomainsToSearch(request.list))
                                \cap DOMAIN vector_stores \cap FailDomainsWide
                           ELSE {}) :
           \E gf \in SUBSET (IF Range(request.list) \subseteq BankingDomain
                             THEN Range(Retrieved(request, sf).domains_consulted)
                                  \cap FailDomainsWide
                             ELSE {}) :
             \E synth_fail \in SynthesisOutcomes(request, sf, gf),
                log_fail \in LogOutcomes(request, sf) :
                  post_query(request, sf, gf, synth_fail, log_fail)

SpecFailures == Init /\ [][NextFailures]_vars

\* Queries alone, on the knowledge base a start or a restart has loaded
NextQueries ==
    \/ \E loaded \in LoadFailurePoints, created \in BOOLEAN :
            Restart(loaded, created)
    \/ \E request \in Requests :
         \E sf \in SUBSET SearchPoints(request) :
           \E gf \in SUBSET GenerationPoints(request, sf) :
             \E synth_fail \in SynthesisOutcomes(request, sf, gf),
                log_fail \in LogOutcomes(request, sf) :
                  post_query(request, sf, gf, synth_fail, log_fail)

\* the process starts on a database that add_sample_data.py has filled, once
\* or SampleRuns times
InitSeeded ==
    /\ documents \in {SampleRows, SeededRows}
    /\ query_logs = <<>>
    /\ vector_stores = LoadExistingKnowledge(documents, Len(documents), FALSE)
    /\ result = [op |-> "restart", loaded |-> Len(documents),
                 complete |-> TRUE]

SpecSeeded == InitSeeded /\ [][NextQueries]_vars

-----------------------------------------------------------------------------
(* Properties *)

\* the latest handler was POST /query and it reached query_knowledge_base
QueryReturned == result.op = "query" /\ result.called

\* the completion calls of the latest query made with the synthesis prompt
SynthesisCalls ==
    {i \in 1..Len(result.calls) : result.calls[i].template = "synthesis"}

\* the completion calls of the latest query made with a domain's template
ExpertCalls ==
    {i \in 1..Len(result.calls) : result.calls[i].template \in BankingDomain}

\* the hits of the latest query that came from one domain's partition
HitsOf(domain) == SelectSeq(result.hits, LAMBDA doc : doc.domain = domain)

\* the row with this id has an entry in some partition
Indexed(stores, id) ==
    \E d \in DOMAIN stores : \E i \in 1..Len(stores[d]) : stores[d][i].id = id

\* no partition holds an entry
NothingIndexed == \A d \in DOMAIN vector_stores : vector_stores[d] = <<>>

\* C1: every invocation of query_knowledge_base adds exactly one row to
\* query_logs, the zero-hit early exit included.  (An append that raises is
\* swallowed by _log_query and is left out of the statement.)
C1_EveryQueryLogged ==
    [][(result'.op = "query" /\ result'.called /\ result'.log # "raised")
        => Len(query_logs') = Len(query_logs) + 1]_vars

\* C2: the context passed to a domain's completion call is built from that
\* domain's hits only, and the call uses that domain's template.
C2_ContextFromOwnHits ==
    QueryReturned =>
        \A i \in ExpertCalls :
            result.calls[i].variables =
                ContextText(HitsOf(result.calls[i].template))

\* C3: a synthesis call is made if and only if more than one per-domain
\* answer was produced (one answer per consulted entry whose completion call
\* succeeded), and never more than once; with exactly one answer the final
\* answer is that answer.
C3_SynthesisIffSeveralAnswers ==
    QueryReturned =>
        /\ (SynthesisCalls # {}) <=> (Len(result.responses) > 1)
        /\ Cardinality(SynthesisCalls) <= 1
        /\ Len(result.responses) = 1 =>
              /\ result.response.answer = result.responses[1].response
              /\ SynthesisCalls = {}
              /\ \E i \in ExpertCalls :
                    /\ ~result.calls[i].raised
                    /\ result.calls[i].template = result.responses[1].domain
                    /\ result.response.answer.template = result.calls[i].template

\* one domain answered while another consulted domain's call raised
C3_Witness ==
    /\ QueryReturned
    /\ Len(result.responses) = 1
    /\ Len(result.response.domains_consulted) > 1
    /\ result.response.answer = result.responses[1].response

\* C4: every response of the query operation has 0.0 <= confidence <= 0.9
\* (in tenths: 0 <= confidence <= 9), on every path.
C4_ConfidenceClamped ==
    QueryReturned =>
        /\ result.response.confidence >= 0
        /\ result.response.confidence <= 9

\* a response whose hit count and domain count add up to more than 0.9
C4_Witness ==
    /\ QueryReturned
    /\ Len(result.hits) + Len(result.response.domains_consulted) > 9
    /\ result.response.confidence = 9

\* C5: with at least one hit, confidence = min(0.9, 0.1 * hits + 0.1 *
\* domains consulted); one hit in one consulted domain gives 0.2, that domain
\* as domains_consulted and that document's title as sources.
C5_ConfidenceFormula ==
    (QueryReturned /\ result.hits # <<>>) =>
        /\ Len(result.response.sources) = Len(result.hits)
        /\ result.response.confidence =
              Min(9, Len(result.response.sources)
                     + Len(result.response.domains_consulted))
        /\ (Len(result.hits) = 1 /\ Len(result.searches) = 1) =>
              /\ result.response.confidence = 2
              /\ result.response.domains_consulted = <<result.searches[1].domain>>
              /\ result.response.domains_consulted = <<result.hits[1].domain>>
              /\ result.response.sources = <<result.hits[1].title>>

\* one document in global_trade_finance, queried with that domain preferred
C5_Witness ==
    /\ QueryReturned
    /\ result.request.list = <<"global_trade_finance">>
    /\ Len(result.hits) = 1
    /\ result.response.confidence = 2
    /\ result.response.domains_consulted = <<"global_trade_finance">>

\* C6: when no partition holds a document, the query returns the fixed
\* fallback answer, no sources, confidence 0.0 and no domains consulted,
\* whatever the query and the preferred domains.
C6_FallbackWhenNothingIndexed ==
    (QueryReturned /\ NothingIndexed) =>
        result.response = [answer |-> FallbackAnswer, sources |-> <<>>,
                           confidence |-> 0, domains_consulted |-> <<>>]

\* a preferred domain whose partition exists and is empty was searched
C6_Witness ==
    /\ QueryReturned
    /\ NothingIndexed
    /\ result.request.list # <<>>
    /\ \E i \in 1..Len(result.searches) : result.searches[i].outcome = "empty"
    /\ result.response.answer = FallbackAnswer

\* C7: with at least one hit and every per-domain completion call raising,
\* the answer is the fixed "unable to generate" text, no synthesis call is
\* made, confidence is still min(0.9, 0.1 * hits + 0.1 * domains) > 0, and
\* sources and domains_consulted list what was retrieved.
C7_AllGenerationsFail ==
    (QueryReturned /\ result.hits # <<>>
        /\ \A i \in ExpertCalls : result.calls[i].raised) =>
        /\ result.response.answer = UnableAnswer
        /\ SynthesisCalls = {}
        /\ result.response.confidence =
              Min(9, Len(result.hits) + Len(result.response.domains_consulted))
        /\ result.response.confidence > 0
        /\ result.response.sources =
              [i \in 1..Len(result.hits) |-> result.hits[i].title]
        /\ result.response.domains_consulted =
              [i \in 1..Len(result.calls) |-> result.calls[i].template]

\* two consulted domains, both completion calls raised
C7_Witness ==
    /\ QueryReturned
    /\ Len(result.calls) = 2
    /\ \A i \in 1..2 : result.calls[i].raised
    /\ result.response.answer = UnableAnswer
    /\ result.response.confidence = 4

\* C8: POST /documents with an unregistered domain string answers 400 and
\* leaves the documents table and every partition, the set of partitions
\* included, unchanged.
C8_UnknownDomainRejected ==
    [][(result'.op = "add_document" /\ result'.domain \notin BankingDomain)
        => /\ result'.status = HTTP_400
           /\ ~result'.success
           /\ documents' = documents
           /\ vector_stores' = vector_stores]_vars

C8_Witness ==
    /\ result.op = "add_document"
    /\ result.domain \notin BankingDomain
    /\ result.status = HTTP_400

C10_PersistedNotIndexedUntilRestart ==
    [][/\ (/\ result'.op = "add_document"
           /\ Len(documents') = Len(documents) + 1
           /\ ~Indexed(vector_stores', result'.id))
          => (~result'.success /\ result'.status = HTTP_500)
       /\ \A i \in 1..Len(documents) :
            i <= Len(documents') /\ documents'[i] = documents[i]
       /\ result'.op # "restart" =>
            \A i \in 1..Len(documents) :
                Indexed(vector_stores', documents[i].id)
                    => Indexed(vector_stores, documents[i].id)
       /\ (result'.op = "restart" /\ result'.complete) =>
            \A i \in 1..Len(documents') :
                /\ documents'[i].domain \in DOMAIN vector_stores'
                /\ \E j \in 1..Len(vector_stores'[documents'[i].domain]) :
                     vector_stores'[documents'[i].domain][j].id
                        = documents'[i].id]_vars

\* an add that failed after its row was persisted: the row is in the table
\* and in no partition
C10_Witness ==
    /\ result.op = "add_document"
    /\ result.called
    /\ ~result.success
    /\ \E i \in 1..Len(documents) :
          /\ documents[i].id = result.id
          /\ documents[i].domain = result.domain
    /\ ~Indexed(vector_stores, result.id)

\* C11: an unregistered domain string is answered with HTTP 400 both in
\* preferred_domains of POST /query and in domain of POST /documents.
C11_InvalidDomainIs400 ==
    /\ (/\ result.op = "query"
        /\ ~(Range(result.request.list) \subseteq BankingDomain))
          => result.status = HTTP_400
    /\ (/\ result.op = "add_document"
        /\ result.domain \notin BankingDomain)
          => result.status = HTTP_400

\* the domains whose search raised in the query that returned r
RaisedSearches(r) ==
    {r.searches[i].domain :
        i \in {j \in 1..Len(r.searches) : r.searches[j].outcome = "raised"}}

\* the domains whose completion call raised in the query that returned r
RaisedExperts(r) ==
    {r.calls[i].template :
        i \in {j \in 1..Len(r.calls) :
                  r.calls[j].raised /\ r.calls[j].template \in BankingDomain}}

\* the synthesis call of the query that returned r raised
SynthesisRaised(r) ==
    \E i \in 1..Len(r.calls) :
        r.calls[i].template = "synthesis" /\ r.calls[i].raised

\* r, the result of a query whose synthesis call raised, against alt, the
\* return of the same query with a synthesis call that succeeds; before and
\* after: query_logs before and after the query
FallsBack(r, alt, before, after) ==
    /\ r.status = HTTP_200
    /\ r.response.answer =
          [kind |-> "join",
           parts |-> [i \in 1..Len(r.responses) |-> r.responses[i].response]]
    /\ [i \in 1..Len(r.responses) |-> r.responses[i].domain] =
          SelectSeq(r.response.domains_consulted,
                    LAMBDA d : d \notin RaisedExperts(r))
    /\ \A i \in 1..Len(r.responses) :
          r.responses[i].response =
             Completion(r.responses[i].domain, r.request.query)
    /\ r.response.confidence = alt.response.confidence
    /\ r.response.sources = alt.response.sources
    /\ r.response.domains_consulted = alt.response.domains_consulted
    /\ Len(after) = Len(alt.query_logs)
    /\ \A i \in 1..Len(after) :
          /\ after[i].user_id = alt.query_logs[i].user_id
          /\ after[i].query = alt.query_logs[i].query
          /\ after[i].domains_consulted = alt.query_logs[i].domains_consulted
          /\ after[i].confidence = alt.query_logs[i].confidence
          /\ i > Len(before) => after[i].response = r.response.answer

\* the return of the query that returned r, with the same failures of the
\* searches and of the domains' completion calls, and with the given
\* outcomes of the synthesis call and of the append to query_logs
Replayed(r, synth_fail, log_fail) ==
    query_knowledge_base(r.request.query, r.request.user_id, r.request.list,
                         RaisedSearches(r), RaisedExperts(r), synth_fail,
                         log_fail)

\* C12: when the synthesis call raises, the query still returns: the answer
\* is the join of the per-domain answers that were produced, in the order
\* their domains were consulted; confidence, sources and domains_consulted
\* are those of the same query with a synthesis call that succeeds, and the
\* audit row is appended as it is then, carrying the answer returned.
C12_SynthesisFailureFallsBack ==
    [][(result'.op = "query" /\ result'.called /\ SynthesisRaised(result'))
        => FallsBack(result',
                     Replayed(result', FALSE, result'.log = "raised"),
                     query_logs, query_logs')]_vars

\* two domains answered, the synthesis call raised and the audit row was
\* appended
C12_Witness ==
    /\ QueryReturned
    /\ SynthesisRaised(result)
    /\ Len(result.responses) > 1
    /\ result.responses[1].domain # result.responses[2].domain
    /\ result.log = "appended"
    /\ query_logs # <<>>

\* the titles of a sequence of hits
Titles(docs) == [i \in 1..Len(docs) |-> docs[i].title]

\* the domains that the latest query selected, as the handler received them
Selected ==
    IF result.request.list # <<>> THEN result.request.list
    ELSE BankingDomainList

\* C13: when the search of a selected domain raises, the query returns; the
\* domain contributes no hit and no source and is not in domains_consulted;
\* every other selected domain that has a partition is searched, and its
\* outcome, its hits and its place in domains_consulted are those of the
\* same retrieval without the failure.
C13_SearchFailureIsolated ==
    (QueryReturned /\ RaisedSearches(result) # {}) =>
        LET failed == RaisedSearches(result)
            clean  == Retrieve(Selected, Len(Selected),
                               result.request.query, {})
        IN  /\ result.status = HTTP_200
            /\ result.hits =
                  SelectSeq(clean.all_relevant_docs,
                            LAMBDA doc : doc.domain \notin failed)
            /\ result.response.sources = Titles(result.hits)
            /\ result.response.domains_consulted =
                  SelectSeq(clean.domains_consulted,
                            LAMBDA d : d \notin failed)
            /\ Len(result.searches) = Len(clean.searches)
            /\ \A i \in 1..Len(result.searches) :
                  /\ result.searches[i].domain = clean.searches[i].domain
                  /\ result.searches[i].domain \notin failed =>
                        result.searches[i] = clean.searches[i]
            /\ [i \in 1..Len(result.searches) |->
                    result.searches[i].domain] =
                  SelectSeq(Selected, LAMBDA d : d \in DOMAIN vector_stores)

\* a search raised, and a domain searched after it contributed hits
C13_Witness ==
    /\ QueryReturned
    /\ \E i, j \in 1..Len(result.searches) :
          /\ i < j
          /\ result.searches[i].outcome = "raised"
          /\ result.searches[j].outcome = "hits"
          /\ HitsOf(result.searches[j].domain) # <<>>
          /\ HitsOf(result.searches[i].domain) = <<>>

\* the completion calls of the latest query made with a domain's template,
\* in the order they were made
ExpertCallSeq ==
    SelectSeq(result.calls, LAMBDA c : c.template \in BankingDomain)

\* C14: when the completion call of a consulted domain raises, that domain
\* has no entry in responses; a completion call is still made for every
\* consulted domain, in consultation order, and each one that does not
\* raise gives a response; the failed domain stays in domains_consulted and
\* its hits stay in sources and in the confidence.
C14_GenerationFailureIsolated ==
    (QueryReturned /\ RaisedExperts(result) # {}) =>
        LET failed == RaisedExperts(result)
            found  == Retrieve(Selected, Len(Selected),
                               result.request.query, RaisedSearches(result))
        IN  /\ result.status = HTTP_200
            /\ [i \in 1..Len(ExpertCallSeq) |-> ExpertCallSeq[i].template] =
                  result.response.domains_consulted
            /\ [i \in 1..Len(result.responses) |->
                    result.responses[i].domain] =
                  SelectSeq(result.response.domains_consulted,
                            LAMBDA d : d \notin failed)
            /\ \A i \in 1..Len(result.responses) :
                  result.responses[i].response =
                     Completion(result.responses[i].domain,
                                result.request.query)
            /\ failed \subseteq Range(result.response.domains_consulted)
            /\ result.response.domains_consulted = found.domains_consulted
            /\ result.hits = found.all_relevant_docs
            /\ \A d \in failed : HitsOf(d) # <<>>
            /\ result.response.sources = Titles(result.hits)
            /\ result.response.confidence =
                  Min(ConfidenceCap,
                      Len(result.hits)
                         + Len(result.response.domains_consulted))

\* the completion call of one consulted domain raised, and the call made
\* after it for another domain gave a response
C14_Witness ==
    /\ QueryReturned
    /\ \E i, j \in 1..Len(ExpertCallSeq) :
          /\ i < j
          /\ ExpertCallSeq[i].raised
          /\ ~ExpertCallSeq[j].raised
          /\ \E k \in 1..Len(result.responses) :
                result.responses[k].domain = ExpertCallSeq[j].template
          /\ ExpertCallSeq[i].template
                \in Range(result.response.domains_consulted)

\* r, the result of a query whose append to query_logs raised, against alt,
\* the return of the same query with an append that succeeds
LogFailureUnseen(r, alt, before, after) ==
    /\ r.status = HTTP_200
    /\ r.response = alt.response
    /\ alt.log = "appended"
    /\ Len(alt.query_logs) = Len(before) + 1
    /\ alt.query_logs[Len(alt.query_logs)].response = r.response.answer
    /\ after = before
    /\ r.response.sources # <<>>

\* C15: when the append to query_logs raises, the query returns the
\* QueryResponse of the same query with an append that succeeds, with HTTP
\* 200; no row is added.
C15_LogFailureSwallowed ==
    [][(result'.op = "query" /\ result'.called /\ result'.log = "raised")
        => LogFailureUnseen(result',
                            Replayed(result', SynthesisRaised(result'), FALSE),
                            query_logs, query_logs')]_vars

\* a query with hits whose append to query_logs raised
C15_Witness ==
    /\ QueryReturned
    /\ result.log = "raised"
    /\ result.status = HTTP_200
    /\ result.hits # <<>>
    /\ query_logs = <<>>

\* C16: an add whose document id is already in the documents table returns
\* False (HTTP 500 at POST /documents) and leaves the documents table, the
\* contents of every partition and the set of partitions as they were.
C16_DuplicateIdRejected ==
    [][(/\ result'.op = "add_document"
        /\ result'.called
        /\ result'.id \in DocumentIds)
        => /\ ~result'.success
           /\ result'.status = HTTP_500
           /\ documents' = documents
           /\ DOMAIN vector_stores' = DOMAIN vector_stores
           /\ vector_stores' = vector_stores]_vars

\* an add has failed for an id that an earlier add persisted and indexed
C16_Witness ==
    /\ result.op = "add_document"
    /\ result.called
    /\ ~result.success
    /\ result.id \in DocumentIds
    /\ Indexed(vector_stores, result.id)
    /\ Cardinality({i \in 1..Len(documents) :
                       documents[i].id = result.id}) = 1

\* C17: POST /documents answers 400 exactly when the domain string is not
\* registered; 500, with a detail that does not tell the cause, for every
\* other failure, a False return of add_knowledge_document included; and
\* success, with the document id, exactly when add_knowledge_document
\* returned True.
C17_AddDocumentStatus ==
    result.op = "add_document" =>
        /\ result.status \in {HTTP_200, HTTP_400, HTTP_500}
        /\ (result.status = HTTP_400) <=> (result.domain \notin BankingDomain)
        /\ (result.status = HTTP_400) => ~result.called
        /\ (result.status = HTTP_500) <=>
              (result.domain \in BankingDomain /\ ~result.success)
        /\ (result.status = HTTP_500) =>
              /\ result.called
              /\ result.detail = "Error adding document"
        /\ (result.status = HTTP_200) <=> (result.called /\ result.success)
        /\ (result.status = HTTP_200) =>
              /\ result.detail = "Document added successfully"
              /\ result.id \in DocumentIds
              /\ Indexed(vector_stores, result.id)
        /\ (result.called /\ ~Indexed(vector_stores, result.id))
              => result.status = HTTP_500

\* an add that failed with its row persisted and unindexed was answered 500
C17_Witness ==
    /\ result.op = "add_document"
    /\ result.status = HTTP_500
    /\ result.domain \in BankingDomain
    /\ result.id \in DocumentIds
    /\ result.domain \in DOMAIN vector_stores
    /\ vector_stores[result.domain] = <<>>

\* the domains of the searches of the latest query, in the order made
SearchedDomains ==
    [i \in 1..Len(result.searches) |-> result.searches[i].domain]

\* C18: the domains a query selects for search are preferred_domains when
\* the caller gave a non-empty list and every registered domain otherwise,
\* whatever the query text and whichever partitions hold documents: the
\* searches made are those of the selected domains that have a partition,
\* in selection order, and of no other domain.
C18_SelectionFromPreference ==
    QueryReturned =>
        /\ result.domains_to_search =
              (IF result.request.given /\ result.request.list # <<>>
               THEN result.request.list ELSE BankingDomainList)
        /\ SearchedDomains =
              SelectSeq(IF result.request.given /\ result.request.list # <<>>
                        THEN result.request.list ELSE BankingDomainList,
                        LAMBDA d : d \in DOMAIN vector_stores)

\* a query preferring one domain searched that domain alone although other
\* domains have documents too
C18_Witness ==
    /\ QueryReturned
    /\ result.request.list = <<"global_trade_finance">>
    /\ SearchedDomains = <<"global_trade_finance">>
    /\ \E d \in DOMAIN vector_stores :
          d # "global_trade_finance" /\ vector_stores[d] # <<>>

\* C19: domains_consulted is the sequence of the selected domains, in
\* selection order, that have a partition and whose search returned at least
\* one hit without raising; a selected domain without a partition is not
\* searched; no domain outside the selection is in domains_consulted.
C19_DomainsConsulted ==
    QueryReturned =>
        /\ result.response.domains_consulted =
              SelectSeq(Selected,
                        LAMBDA d :
                            /\ d \in DOMAIN vector_stores
                            /\ d \notin RaisedSearches(result)
                            /\ similarity_search(vector_stores[d],
                                  result.request.query, SearchK) # <<>>)
        /\ Range(SearchedDomains) \subseteq DOMAIN vector_stores
        /\ Range(result.response.domains_consulted) \subseteq Range(Selected)
        /\ \A d \in Range(result.response.domains_consulted) :
              HitsOf(d) # <<>>

\* of the selected domains one had hits, one had an empty partition and was
\* searched without a hit, and the first is consulted, the second is not
C19_Witness ==
    /\ QueryReturned
    /\ \E i, j \in 1..Len(result.searches) :
          /\ result.searches[i].outcome = "hits"
          /\ result.searches[j].outcome = "empty"
          /\ result.searches[i].domain
                \in Range(result.response.domains_consulted)
          /\ result.searches[j].domain
                \notin Range(result.response.domains_consulted)

\* the hits of the searches of the first n entries of a list of consulted
\* domains, one search after the other
RECURSIVE HitsOfConsulted(_, _, _)
HitsOfConsulted(consulted, n, query) ==
    IF n = 0 THEN <<>>
    ELSE HitsOfConsulted(consulted, n - 1, query)
            \o similarity_search(vector_stores[consulted[n]], query, SearchK)

\* C20: sources is the concatenation, in retrieval order, of the title of
\* every hit of every consulted domain: as many entries as there are hits,
\* equal titles kept.
C20_SourcesAreHitTitles ==
    QueryReturned =>
        LET consulted == result.response.domains_consulted
            expected  == HitsOfConsulted(consulted, Len(consulted),
                                         result.request.query)
        IN  /\ result.response.sources = Titles(expected)
            /\ Len(result.response.sources) = Len(result.hits)
            /\ result.hits = expected

\* a query whose sources list the same title twice
C20_Witness ==
    /\ QueryReturned
    /\ Len(result.response.sources) > 1
    /\ \E i, j \in 1..Len(result.response.sources) :
          /\ i < j
          /\ result.response.sources[i] = result.response.sources[j]

\* C21: no completion call of a domain is made before every search of the
\* query has returned or raised: the context of each one holds the hits of
\* every search, the last one included.  The synthesis call is made after
\* every domain's completion call has returned or raised: it is the last
\* call, and its input holds the response of every call that returned.
C21_JoinBeforeGenerationAndSynthesis ==
    QueryReturned =>
        /\ \A i \in ExpertCalls :
              /\ result.calls[i].variables = ContextText(result.hits)
              /\ \A j \in 1..Len(result.searches) :
                    result.searches[j].outcome = "hits" =>
                        \E k \in 1..Len(result.calls[i].variables) :
                            \E h \in 1..Len(result.hits) :
                                /\ result.hits[h].domain =
                                      result.searches[j].domain
                                /\ result.calls[i].variables[k] =
                                      <<"Source", result.hits[h].title,
                                        result.hits[h].page_content>>
        /\ \A i \in SynthesisCalls :
              /\ i = Len(result.calls)
              /\ \A j \in ExpertCalls : j < i
              /\ Len(ExpertCallSeq) = Len(result.response.domains_consulted)
              /\ result.calls[i].variables =
                    [k \in 1..Len(result.responses) |->
                        <<"Domain", DomainLabel[result.responses[k].domain],
                          "Response", result.responses[k].response>>]
              /\ Len(result.responses) =
                    Cardinality({j \in ExpertCalls : ~result.calls[j].raised})

\* the first completion call of a query was given the hits of the last
\* domain searched, and a synthesis call followed the domains' calls
C21_Witness ==
    /\ QueryReturned
    /\ Len(result.searches) > 1
    /\ result.searches[Len(result.searches)].outcome = "hits"
    /\ result.searches[Len(result.searches)].domain # result.calls[1].template
    /\ \E k \in 1..Len(result.calls[1].variables) :
          result.calls[1].variables[k][2] =
              result.hits[Len(result.hits)].title
    /\ SynthesisCalls # {}
    /\ \E j \in ExpertCalls : result.calls[j].raised

\* the audit row of the query that returned r
AuditRowOf(r) ==
    [user_id |-> r.request.user_id, query |-> r.request.query,
     response |-> r.response.answer,
     domains_consulted |-> <<"json", r.response.domains_consulted>>,
     confidence |-> <<"str", r.response.confidence>>]

\* C22: the queries of concurrent requests leave one row each in query_logs:
\* every query that returns, and whose append does not raise, adds the row
\* of its own user id, query text, answer, domains and confidence after the
\* rows that were there, and changes none of them.
C22_OneRowPerQuery ==
    [][(result'.op = "query" /\ result'.called /\ result'.log # "raised")
        => query_logs' = Append(query_logs, AuditRowOf(result'))]_vars

\* the ids of the entries of a partition, in insertion order
EntryIds(store) == [i \in 1..Len(store) |-> store[i].id]

\* C23: an ingestion that succeeds leaves its document at the end of its
\* domain's partition and every entry that was in a partition where it was:
\* the first ingestion for a domain creates the partition, a later one, of
\* a concurrent request too, adds to that partition, so that after two
\* ingestions for a domain without a partition one partition holds both.
C23_NoDocumentLostOnCreate ==
    [][(result'.op = "add_document" /\ result'.success)
        => /\ result'.domain \in DOMAIN vector_stores'
           /\ DOMAIN vector_stores' = DOMAIN vector_stores \cup {result'.domain}
           /\ EntryIds(vector_stores'[result'.domain]) =
                 (IF result'.domain \in DOMAIN vector_stores
                  THEN EntryIds(vector_stores[result'.domain])
                  ELSE <<>>) \o <<result'.id>>
           /\ \A d \in DOMAIN vector_stores :
                 d # result'.domain => vector_stores'[d] = vector_stores[d]
           /\ \E i \in 1..Len(documents') :
                 /\ documents'[i].id = result'.id
                 /\ documents'[i].domain = result'.domain]_vars

\* two uploads for a domain that had no partition have both succeeded: the
\* one partition there is holds the two documents
C23_Witness ==
    /\ result.op = "add_document"
    /\ result.success
    /\ Len(documents) = 2
    /\ DOMAIN vector_stores = {result.domain}
    /\ EntryIds(vector_stores[result.domain]) = <<<<"doc", 1>>, <<"doc", 2>>>>
    /\ \A i \in 1..2 : documents[i].domain = result.domain

\* the answers query_knowledge_base can return for a question
Answers(query) ==
    {FallbackAnswer, UnableAnswer, Completion("synthesis", query)}
        \cup {Completion(d, query) : d \in BankingDomain}

\* C24: whichever searches, completion calls of domains, synthesis call and
\* append to query_logs raise, query_knowledge_base returns a QueryResponse
\* to the handler, which answers HTTP 200: an answer (a fixed text, a
\* completion or the join of completions), the sources, a confidence between
\* 0.0 and 0.9 and the domains consulted.
C24_QueryNeverRaises ==
    (result.op = "query"
        /\ Range(result.request.list) \subseteq BankingDomain) =>
        /\ result.called
        /\ result.status = HTTP_200
        /\ \/ result.response.answer \in Answers(result.request.query)
           \/ /\ result.response.answer.kind = "join"
              /\ Len(result.response.answer.parts) > 1
              /\ \A i \in 1..Len(result.response.answer.parts) :
                    result.response.answer.parts[i]
                        \in Answers(result.request.query)
        /\ result.response.confidence \in 0..ConfidenceCap
        /\ Range(result.response.domains_consulted) \subseteq BankingDomain
        /\ Len(result.response.sources) = Len(result.hits)
        /\ (\A i \in ExpertCalls : result.calls[i].raised) =>
              result.response.answer \in {FallbackAnswer, UnableAnswer}

\* one query in which a search, the completion call of a domain, the
\* synthesis call and the append to query_logs have all raised
C24_Witness ==
    /\ QueryReturned
    /\ result.status = HTTP_200
    /\ RaisedSearches(result) # {}
    /\ RaisedExperts(result) # {}
    /\ RaisedSearches(result) # RaisedExperts(result)
    /\ SynthesisRaised(result)
    /\ result.log = "raised"
    /\ result.response.answer.kind = "join"

\* C25: the row a query appends to query_logs holds the user_id and the
\* query text of the request and the answer, the domains_consulted (as
\* JSON) and the confidence (as its string) of the QueryResponse the same
\* query returned.
C25_AuditRowMatchesResponse ==
    (QueryReturned /\ result.log = "appended") =>
        /\ query_logs # <<>>
        /\ LET row == query_logs[Len(query_logs)]
           IN  /\ row.user_id = result.request.user_id
               /\ row.query = result.request.query
               /\ row.response = result.response.answer
               /\ row.domains_consulted =
                     <<"json", result.response.domains_consulted>>
               /\ row.confidence = <<"str", result.response.confidence>>

\* a query of bob that consulted two domains has appended its row
C25_Witness ==
    /\ QueryReturned
    /\ result.log = "appended"
    /\ result.request.user_id = "bob"
    /\ Len(result.response.domains_consulted) = 2
    /\ query_logs # <<>>
    /\ query_logs[Len(query_logs)].user_id = "bob"
    /\ query_logs[Len(query_logs)].response.kind \in {"completion", "join"}

\* C26: the completion calls a query makes with a domain's template are one
\* for each entry of domains_consulted, in that order, and no other; every
\* other completion call is the synthesis call; a query without hits makes
\* no completion call at all.
C26_OneCallPerConsultedEntry ==
    QueryReturned =>
        /\ [i \in 1..Len(ExpertCallSeq) |-> ExpertCallSeq[i].template] =
              result.response.domains_consulted
        /\ \A i \in 1..Len(result.calls) :
              /\ result.calls[i].template \in BankingDomain \cup {"synthesis"}
              /\ result.calls[i].question = result.request.query
        /\ Cardinality(ExpertCalls) + Cardinality(SynthesisCalls) =
              Len(result.calls)
        /\ result.hits = <<>> => result.calls = <<>>

\* a query that consulted one domain twice made two completion calls with
\* its template
C26_Witness ==
    /\ QueryReturned
    /\ Len(result.response.domains_consulted) = 2
    /\ result.response.domains_consulted[1] =
          result.response.domains_consulted[2]
    /\ Cardinality(ExpertCalls) = 2
    /\ \A i \in ExpertCalls :
          result.calls[i].template = result.response.domains_consulted[1]

\* C27: within one run of the process (every step but a restart, which is a
\* new run) a partition that exists goes on existing, and the entries it
\* holds stay its first entries: no add and no query, failing or not,
\* removes a partition or puts an empty one in its place.
C27_PartitionsOnlyGrow ==
    [][result'.op # "restart"
        => \A d \in DOMAIN vector_stores :
              /\ d \in DOMAIN vector_stores'
              /\ Len(vector_stores'[d]) >= Len(vector_stores[d])
              /\ SubSeq(vector_stores'[d], 1, Len(vector_stores[d])) =
                    vector_stores[d]]_vars

\* an add whose indexing raised has left the partition of its domain with
\* the entries it had
C27_Witness ==
    /\ result.op = "add_document"
    /\ result.called
    /\ ~result.success
    /\ result.id \in DocumentIds
    /\ ~Indexed(vector_stores, result.id)
    /\ result.domain \in DOMAIN vector_stores
    /\ vector_stores[result.domain] # <<>>

\* C28: every entry of a partition was made from a row of the documents
\* table of the partition's domain, and a domain has a partition only if
\* the documents table holds a row of that domain.
C28_IndexedImpliesPersisted ==
    \A d \in DOMAIN vector_stores :
        /\ d \in BankingDomain
        /\ RowsOfDomain(documents, d) # {}
        /\ \A i \in 1..Len(vector_stores[d]) :
              \E j \in RowsOfDomain(documents, d) :
                  vector_stores[d][i] = VectorEntry(documents[j])

\* an add whose commit raised: the document is in no partition, and its
\* domain, of which the table holds no row, has no partition
C28_Witness ==
    /\ result.op = "add_document"
    /\ result.called
    /\ ~result.success
    /\ result.id \notin DocumentIds
    /\ ~Indexed(vector_stores, result.id)
    /\ RowsOfDomain(documents, result.domain) = {}
    /\ result.domain \notin DOMAIN vector_stores

\* C29: in every QueryResponse sources is empty exactly when
\* domains_consulted is empty, and exactly when the confidence is 0.0; when
\* domains_consulted is not empty the confidence is at least 0.2 and the
\* sources are at least as many as the domains consulted and at most 5
\* times as many.
C29_ResponseShape ==
    QueryReturned =>
        LET sources   == Len(result.response.sources)
            consulted == Len(result.response.domains_consulted)
        IN  /\ (sources = 0) <=> (consulted = 0)
            /\ (consulted = 0) <=> (result.response.confidence = 0)
            /\ consulted > 0 =>
                  /\ result.response.confidence >= 2
                  /\ sources >= consulted
                  /\ sources <= 5 * consulted

\* a query got 5 sources from each domain it consulted, out of partitions
\* that hold more than 5 documents
C29_Witness ==
    /\ QueryReturned
    /\ result.response.domains_consulted # <<>>
    /\ Len(result.response.sources) =
          5 * Len(result.response.domains_consulted)
    /\ \A d \in Range(result.response.domains_consulted) :
          Len(vector_stores[d]) > 5

\* C30: a request to POST /query leaves the documents table, the set of
\* partitions and the entries of every partition as they were, whatever
\* raises on its way; query_logs alone may change.
C30_QueryChangesOnlyTheLog ==
    [][result'.op = "query"
        => /\ documents' = documents
           /\ DOMAIN vector_stores' = DOMAIN vector_stores
           /\ vector_stores' = vector_stores
           /\ Len(query_logs') >= Len(query_logs)
           /\ SubSeq(query_logs', 1, Len(query_logs)) = query_logs]_vars

\* a query has appended its row while a search of it raised and a domain it
\* selected has no partition
C30_Witness ==
    /\ QueryReturned
    /\ result.log = "appended"
    /\ query_logs # <<>>
    /\ RaisedSearches(result) # {}
    /\ \E d \in Range(Selected) : d \notin DOMAIN vector_stores
    /\ documents # <<>>

====
